---------------------------- MODULE Spec2Model ----------------------------
(***************************************************************************)
(* Model of etl.py: a batch job that reads the song and log datasets,      *)
(* derives five tables (songs, artists, users, time, songplays) and writes *)
(* each of them, in 'overwrite' mode, to its destination.                  *)
(*                                                                         *)
(* A dataframe is a bag (multiset) of rows; a row is a record.  The users  *)
(* table, the only one the code orders, is a sequence of rows.             *)
(***************************************************************************)
EXTENDS Integers, Sequences, FiniteSets, Bags, TLC

(***************************************************************************)
(* Bounds of the model.                                                    *)
(***************************************************************************)
MaxSongs == 2
MaxLogs == 2
MaxRuns == 2
NumPartitions == 2

(***************************************************************************)
(* Input records.  A song record carries the nine fields the job reads, a  *)
(* log record the eleven.  ts is a 64-bit count of milliseconds, held as   *)
(* two limbs: ts = hi * 10^6 + lo.                                         *)
(***************************************************************************)
NULL == "null"

Song(sid, title, aid, name) ==
    [song_id |-> sid, title |-> title, artist_id |-> aid, year |-> 2000,
     duration |-> 200, artist_name |-> name, artist_location |-> "loc",
     artist_latitude |-> 35, artist_longitude |-> 139]

Log(uid, level, page, song, ts) ==
    [userId |-> uid, firstName |-> "first", lastName |-> "last",
     gender |-> "F", level |-> level, ts |-> ts, page |-> page, song |-> song,
     sessionId |-> 100 + uid, location |-> "city", userAgent |-> "agent"]

\* 1541121934796 ms, the instant 2018-11-02 01:25:34.796 UTC
KnownTs == [hi |-> 1541121, lo |-> 934796]
\* 1543624200000 ms, the instant 2018-12-01 00:30:00 UTC
MonthEdgeTs == [hi |-> 1543624, lo |-> 200000]
\* 1546302600000 ms, the instant 2019-01-01 00:30:00 UTC
YearEdgeTs == [hi |-> 1546302, lo |-> 600000]

SongCatalog ==
    { Song("S1", "T1", "A1", "N1"),
      Song("S2", "T2", "A1", "N1b"),    \* same artist_id, other artist_name
      Song("S1", "T1", "A2", "N2") }    \* same song_id and title as the first

LogCatalog ==
    { Log(2, "free", "NextSong", "T1", KnownTs),
      Log(2, "paid", "NextSong", "T2", MonthEdgeTs),  \* same userId, other level
      Log(1, "free", "NextSong", "T3", YearEdgeTs),   \* no song has this title
      Log(3, "free", "Home", NULL, KnownTs),
      Log(1, "paid", "Home", "T1", MonthEdgeTs) }

\* UTC offsets of the clock of the machine the job runs on, in minutes
TZOffsets == {-420, 0}
\* a wider choice of clocks, around the offsets at which KnownTs changes day
TZSweep == {-720, -420, -120, -90, -75, -60, 0, 60, 330, 840}

(***************************************************************************)
(* Bags.                                                                   *)
(***************************************************************************)
RECURSIVE BagsUpTo(_, _)
BagsUpTo(S, n) ==
    IF n = 0 THEN {EmptyBag}
    ELSE LET P == BagsUpTo(S, n - 1)
         IN  P \cup {b (+) SetToBag({e}) : b \in P, e \in S}

\* every sequence that lists the rows of bag B, each as often as B holds it
RECURSIVE Orderings(_)
Orderings(B) ==
    IF B = EmptyBag THEN {<<>>}
    ELSE UNION {{<<r>> \o s : s \in Orderings(B (-) SetToBag({r}))} :
                r \in BagToSet(B)}

RECURSIVE BagOfSeq(_)
BagOfSeq(s) ==
    IF s = <<>> THEN EmptyBag
    ELSE SetToBag({Head(s)}) (+) BagOfSeq(Tail(s))

(***************************************************************************)
(* Dataframe operations used by the job.                                   *)
(***************************************************************************)
\* df.select([...]): keep the named columns of every row
Select(df, cols) == BagOfAll(LAMBDA r : [c \in cols |-> r[c]], df)

\* df.dropDuplicates([key]): one row per value of key; which of the rows
\* sharing a key survives is not fixed, so this is the set of results
DropDuplicatesBy(df, key) ==
    LET rows == BagToSet(df)
        keys == {r[key] : r \in rows}
    IN  {SetToBag({f[k] : k \in keys}) :
            f \in {g \in [keys -> rows] : \A k \in keys : g[k][key] = k}}

\* df.dropDuplicates(): one copy of every distinct row
DropDuplicates(df) == SetToBag(BagToSet(df))

\* the rows in any order
OrderBy_unsorted(df, key) == Orderings(df)

\* df.orderBy(key): the rows in ascending order of key (ties in any order)
OrderBy(df, key) ==
    {s \in Orderings(df) :
        \A i, j \in 1..Len(s) : i < j => s[i][key] <= s[j][key]}

(***************************************************************************)
(* Calendar arithmetic of the timestamp conversion and of the date-part    *)
(* extractors (proleptic Gregorian calendar, days counted from 1970-01-01).*)
(***************************************************************************)
CivilFromDays(days) ==
    LET z == days + 719468
        era == z \div 146097
        doe == z - era * 146097
        yoe == (doe - doe \div 1460 + doe \div 36524 - doe \div 146096) \div 365
        doy == doe - (365 * yoe + yoe \div 4 - yoe \div 100)
        mp == (5 * doy + 2) \div 153
        m == IF mp < 10 THEN mp + 3 ELSE mp - 9
    IN  [year |-> yoe + era * 400 + (IF m <= 2 THEN 1 ELSE 0),
         month |-> m,
         day |-> doy - (153 * mp + 2) \div 5 + 1]

DaysFromCivil(y, m, d) ==
    LET yy == IF m <= 2 THEN y - 1 ELSE y
        era == yy \div 400
        yoe == yy - era * 400
        mp == (m + 9) % 12
        doy == (153 * mp + 2) \div 5 + d - 1
        doe == yoe * 365 + yoe \div 4 - yoe \div 100 + doy
    IN  era * 146097 + doe - 719468

\* datetime.fromtimestamp(int(x) / 1000.0): the naive datetime of the
\* instant x milliseconds after the epoch on a clock tz minutes off UTC
FromTimestamp(x, tz) ==
    LET secs == x.hi * 1000 + x.lo \div 1000
        local == secs + tz * 60
        c == CivilFromDays(local \div 86400)
        sod == local % 86400
    IN  [year |-> c.year, month |-> c.month, day |-> c.day,
         hour |-> sod \div 3600, minute |-> (sod % 3600) \div 60,
         second |-> sod % 60, microsecond |-> (x.lo % 1000) * 1000]

\* TimestampType(): the naive datetime the udf returns is read on the same
\* local clock and stored as an instant (seconds and microseconds)
ToInternal(dt, tz) ==
    [sec |-> DaysFromCivil(dt.year, dt.month, dt.day) * 86400
             + dt.hour * 3600 + dt.minute * 60 + dt.second - tz * 60,
     micros |-> dt.microsecond]

get_timestamp(x, tz) == ToInternal(FromTimestamp(x, tz), tz)

\* the extractors read the instant on the session's clock
LocalDays(t, tz) == (t.sec + tz * 60) \div 86400
hour(t, tz) == ((t.sec + tz * 60) % 86400) \div 3600
\* the day of the instant on the UTC clock
dayofmonth_utc(t, tz) == CivilFromDays(t.sec \div 86400).day

dayofmonth(t, tz) == CivilFromDays(LocalDays(t, tz)).day
month(t, tz) == CivilFromDays(LocalDays(t, tz)).month
year(t, tz) == CivilFromDays(LocalDays(t, tz)).year
\* 1 = Sunday ... 7 = Saturday
dayofweek(t, tz) == ((LocalDays(t, tz) + 4) % 7) + 1

\* number of ISO weeks of year y: 53 when 1 January is a Thursday, or a
\* Wednesday in a leap year
WeeksInYear(y) ==
    LET jan1 == ((DaysFromCivil(y, 1, 1) + 3) % 7) + 1
        leap == (y % 4 = 0 /\ y % 100 # 0) \/ y % 400 = 0
    IN  IF jan1 = 4 \/ (leap /\ jan1 = 3) THEN 53 ELSE 52

\* ISO 8601 week number
weekofyear(t, tz) ==
    LET days == LocalDays(t, tz)
        y == CivilFromDays(days).year
        ordinal == days - DaysFromCivil(y, 1, 1) + 1
        isoDow == ((days + 3) % 7) + 1
        w == (ordinal - isoDow + 10) \div 7
    IN  IF w < 1 THEN WeeksInYear(y - 1)
        ELSE IF w > WeeksInYear(y) THEN 1
        ELSE w

(***************************************************************************)
(* The five tables, as the job derives them from its dataframes.           *)
(***************************************************************************)
SongCols == {"song_id", "title", "artist_id", "year", "duration"}
ArtistCols == {"artist_id", "artist_name", "artist_location",
               "artist_latitude", "artist_longitude"}
UserCols == {"userId", "firstName", "lastName", "gender", "level"}
TimeCols == {"datetime", "hour", "day", "week", "month", "year", "weekday"}

songs_table(df) == Select(df, SongCols)

\* the artists columns without dropDuplicates
artists_table_nodedup(df) == {Select(df, ArtistCols)}

\* the possible artists tables
artists_table(df) == DropDuplicatesBy(Select(df, ArtistCols), "artist_id")

\* no filter
NextSongFilter_none(df) == df

\* df.where(df.page == 'NextSong'); a null page is not equal to anything
NextSongFilter(df) ==
    LET keep == {r \in BagToSet(df) : r.page # NULL /\ r.page = "NextSong"}
    IN  [r \in keep |-> df[r]]

\* the possible users tables, each a sequence of rows
users_table(df) ==
    UNION {OrderBy(d, "userId") :
           d \in DropDuplicatesBy(Select(df, UserCols), "userId")}

\* the eight withColumn calls
WithTimeColumns(df, tz) ==
    BagOfAll(LAMBDA r :
                LET t == get_timestamp(r.ts, tz)
                IN  [timestamp |-> t, datetime |-> get_timestamp(r.ts, tz),
                     hour |-> hour(t, tz), day |-> dayofmonth(t, tz),
                     week |-> weekofyear(t, tz), month |-> month(t, tz),
                     year |-> year(t, tz), weekday |-> dayofweek(t, tz)] @@ r,
             df)

time_table(df) == DropDuplicates(Select(df, TimeCols))

\* a join without its condition
Join_cross(df, songs) ==
    LET pairs == [log : BagToSet(df), song : BagToSet(songs)]
    IN  [p \in pairs |-> df[p.log] * songs[p.song]]

\* df.join(song_df, song_df.title == df.song): an inner join; a joined row
\* is the pair of its log row and its song row (both have a year column)
Join(df, songs) ==
    LET pairs == {p \in [log : BagToSet(df), song : BagToSet(songs)] :
                    /\ p.log.song # NULL
                    /\ p.song.title # NULL
                    /\ p.song.title = p.log.song}
    IN  [p \in pairs |-> df[p.log] * songs[p.song]]

\* the select of the songplays columns, before the id is added
SongplayRow(p, tz) ==
    [ts |-> p.log.ts, userId |-> p.log.userId, level |-> p.log.level,
     song_id |-> p.song.song_id, artist_id |-> p.song.artist_id,
     sessionId |-> p.log.sessionId, location |-> p.log.location,
     userAgent |-> p.log.userAgent,
     year |-> year(p.log.datetime, tz), month |-> month(p.log.datetime, tz)]

\* all ways to cut n rows into NumPartitions consecutive partitions: the
\* sequences of partition sizes
RECURSIVE Cuts(_, _)
Cuts(n, parts) ==
    IF parts = 1 THEN {<<n>>}
    ELSE UNION {{<<k>> \o c : c \in Cuts(n - k, parts - 1)} : k \in 0..n}

\* monotonically_increasing_id() of the i-th row under the sizes in cut:
\* the pair <<partition, position in the partition>>, which stands for
\* partition * 2^33 + position
RECURSIVE IdAt(_, _, _)
IdAt(i, cut, part) ==
    IF i <= Head(cut) THEN <<part, i - 1>>
    ELSE IdAt(i - Head(cut), Tail(cut), part + 1)

monotonically_increasing_id(rows) ==
    {BagOfSeq([i \in 1..Len(s) |->
                  [songplay_id |-> IdAt(i, cut, 0)] @@ s[i]]) :
        s \in Orderings(rows), cut \in Cuts(BagCardinality(rows), NumPartitions)}

\* the possible songplays tables
songplays_table(df, tz) ==
    monotonically_increasing_id(BagOfAll(LAMBDA p : SongplayRow(p, tz), df))

(***************************************************************************)
(* The object store.                                                       *)
(***************************************************************************)
Dests == <<"songs", "artists", "users", "time", "songplays">>

\* mode 'append': the new rows are added to what the destination holds
parquet_append(dest, old, new) ==
    IF dest = "users" THEN old \o new ELSE old (+) new

\* mode 'ignore': a destination that holds data is left as it is
parquet_ignore(dest, old, new) == IF old = <<>> THEN new ELSE old

\* .parquet(path, 'overwrite'): the destination holds the new table only
parquet(dest, old, new) == new

\* the tables a write that raised may leave at its destination: the old
\* content (it raised before the old files were deleted), or the rows of
\* some of the tasks of the new table (it raised while their files were
\* committed).  The tasks of songplays are the partitions its ids name; the
\* rows of the other tables may be spread over tasks in any way.
SubTables(dest, t) ==
    CASE dest = "users" ->
            {[i \in 1..Cardinality(I) |->
                 t[CHOOSE k \in I : Cardinality({j \in I : j < k}) = i - 1]] :
             I \in SUBSET (1..Len(t))}
      [] dest = "songplays" ->
            {[r \in {x \in BagToSet(t) : x.songplay_id[1] \in P} |-> t[r]] :
             P \in SUBSET (0..(NumPartitions - 1))}
      [] OTHER -> SubBag(t)

Leftover(dest, old, new) == {old} \cup SubTables(dest, new)

(***************************************************************************)
(* State.                                                                  *)
(***************************************************************************)
VARIABLES
    pc,         \* the statement of main the process is about to execute
    spark,      \* TRUE when the process holds a SparkSession
    songIn,     \* the song dataset under input_data
    logIn,      \* the log dataset under input_data
    tz,         \* UTC offset of the local clock, in minutes
    df,         \* the local df of the running process_* function
    song_df,    \* the local song_df of process_log_data
    out,        \* the content of the five destinations under output_data
    prev,       \* history: out when the current run started
    written,    \* history: the destinations this run has written, in order
    failedAt,   \* history: the statement that raised, or "none"
    runs,       \* history: number of runs started
    repeat      \* history: the previous run succeeded on this same input

vars == <<pc, spark, songIn, logIn, tz, df, song_df, out, prev, written,
          failedAt, runs, repeat>>

Steps == <<"create_spark_session", "read_song_data", "write_songs",
           "write_artists", "read_log_data", "write_users", "write_time",
           "read_song_df", "write_songplays">>

SongInputs == BagsUpTo(SongCatalog, MaxSongs)
LogInputs == BagsUpTo(LogCatalog, MaxLogs)

EmptyStore == [d \in {Dests[i] : i \in 1..Len(Dests)} |-> <<>>]

Init ==
    /\ pc = "create_spark_session"
    /\ spark = FALSE
    /\ songIn \in SongInputs
    /\ logIn \in LogInputs
    /\ tz \in TZOffsets
    /\ df = EmptyBag
    /\ song_df = EmptyBag
    /\ out = EmptyStore
    /\ prev = EmptyStore
    /\ written = <<>>
    /\ failedAt = "none"
    /\ runs = 1
    /\ repeat = FALSE

Store(dest, table) ==
    /\ out' = [out EXCEPT ![dest] = parquet(dest, out[dest], table)]
    /\ written' = Append(written, dest)

\* an exception leaves main: the process ends
Raise ==
    /\ pc' = "failed"
    /\ failedAt' = pc
    /\ UNCHANGED <<spark, songIn, logIn, tz, df, song_df, prev, written,
                   runs, repeat>>

\* spark.read.json(path) raises when the path holds no record
Readable(data) == data # EmptyBag

Proceed(next) ==
    /\ pc' = next
    /\ UNCHANGED <<spark, songIn, logIn, tz, out, prev, written, failedAt,
                   runs, repeat>>

(***************************************************************************)
(* main, statement by statement.                                           *)
(***************************************************************************)
\* main calling process_log_data first
create_spark_session_logFirst ==
    /\ pc = "create_spark_session"
    /\ spark' = TRUE
    /\ pc' = "read_log_data"
    /\ UNCHANGED <<songIn, logIn, tz, df, song_df, out, prev, written,
                   failedAt, runs, repeat>>

create_spark_session ==
    /\ pc = "create_spark_session"
    /\ spark' = TRUE
    /\ pc' = "read_song_data"
    /\ UNCHANGED <<songIn, logIn, tz, df, song_df, out, prev, written,
                   failedAt, runs, repeat>>

\* process_song_data: df = spark.read.json(song_data)
ReadSongData ==
    /\ pc = "read_song_data"
    /\ IF Readable(songIn)
       THEN df' = songIn /\ Proceed("write_songs")
       ELSE Raise /\ UNCHANGED out
    /\ UNCHANGED song_df

WriteSongs ==
    /\ pc = "write_songs"
    /\ Store("songs", songs_table(df))
    /\ pc' = "write_artists"
    /\ UNCHANGED <<spark, songIn, logIn, tz, df, song_df, prev, failedAt,
                   runs, repeat>>

WriteArtists ==
    /\ pc = "write_artists"
    /\ \E t \in artists_table(df) : Store("artists", t)
    /\ pc' = "read_log_data"
    /\ UNCHANGED <<spark, songIn, logIn, tz, df, song_df, prev, failedAt,
                   runs, repeat>>

\* process_log_data: df = spark.read.json(log_data)
ReadLogData ==
    /\ pc = "read_log_data"
    /\ IF Readable(logIn)
       THEN df' = logIn /\ Proceed("write_users")
       ELSE Raise /\ UNCHANGED out
    /\ UNCHANGED song_df

WriteUsers ==
    /\ pc = "write_users"
    /\ df' = NextSongFilter(df)
    /\ \E t \in users_table(df') : Store("users", t)
    /\ pc' = "write_time"
    /\ UNCHANGED <<spark, songIn, logIn, tz, song_df, prev, failedAt, runs,
                   repeat>>

WriteTime ==
    /\ pc = "write_time"
    /\ df' = WithTimeColumns(df, tz)
    /\ Store("time", time_table(df'))
    /\ pc' = "read_song_df"
    /\ UNCHANGED <<spark, songIn, logIn, tz, song_df, prev, failedAt, runs,
                   repeat>>

ReadSongDf ==
    /\ pc = "read_song_df"
    /\ IF Readable(songIn)
       THEN song_df' = songIn /\ Proceed("write_songplays")
       ELSE Raise /\ UNCHANGED out
    /\ UNCHANGED df

WriteSongplays ==
    /\ pc = "write_songplays"
    /\ df' = Join(df, song_df)
    /\ \E t \in songplays_table(df', tz) : Store("songplays", t)
    /\ pc' = "done"
    /\ UNCHANGED <<spark, songIn, logIn, tz, song_df, prev, failedAt, runs,
                   repeat>>

\* the table the write at pc would store, as a set of possible tables
Pending ==
    CASE pc = "write_songs" -> {songs_table(df)}
      [] pc = "write_artists" -> artists_table(df)
      [] pc = "write_users" -> users_table(NextSongFilter(df))
      [] pc = "write_time" ->
            {time_table(WithTimeColumns(df, tz))}
      [] pc = "write_songplays" -> songplays_table(Join(df, song_df), tz)

DestOf(step) == Dests[CHOOSE i \in 1..Len(Dests) : step = "write_" \o Dests[i]]

\* a failure handler that restores the destinations
EngineFailure_rollback ==
    /\ pc \in {Steps[i] : i \in 1..Len(Steps)}
    /\ Raise
    /\ out' = prev

\* a call into the engine raises: a read, or a write, which then leaves its
\* destination in one of the Leftover states
EngineFailure ==
    /\ pc \in {Steps[i] : i \in 1..Len(Steps)}
    /\ Raise
    /\ IF pc \in {"write_" \o Dests[i] : i \in 1..Len(Dests)}
       THEN \E t \in Pending :
              \E left \in Leftover(DestOf(pc), out[DestOf(pc)], t) :
                 out' = [out EXCEPT ![DestOf(pc)] = left]
       ELSE UNCHANGED out

\* the job is started again, on the same input or after the input datasets
\* gained or lost one record
NextInputs ==
    {<<songIn, logIn>>}
      \cup {<<s, logIn>> : s \in {x \in SongInputs :
                \E r \in SongCatalog : x = songIn (+) SetToBag({r})
                                       \/ songIn = x (+) SetToBag({r})}}
      \cup {<<songIn, l>> : l \in {x \in LogInputs :
                \E r \in LogCatalog : x = logIn (+) SetToBag({r})
                                      \/ logIn = x (+) SetToBag({r})}}

Rerun ==
    /\ pc \in {"done", "failed"}
    /\ runs < MaxRuns
    /\ \E in \in NextInputs :
          /\ songIn' = in[1]
          /\ logIn' = in[2]
          /\ repeat' = (pc = "done" /\ in = <<songIn, logIn>>)
    /\ pc' = "create_spark_session"
    /\ spark' = FALSE
    /\ df' = EmptyBag
    /\ song_df' = EmptyBag
    /\ prev' = out
    /\ written' = <<>>
    /\ failedAt' = "none"
    /\ runs' = runs + 1
    /\ UNCHANGED <<tz, out>>

Next ==
    \/ create_spark_session
    \/ ReadSongData
    \/ WriteSongs
    \/ WriteArtists
    \/ ReadLogData
    \/ WriteUsers
    \/ WriteTime
    \/ ReadSongDf
    \/ WriteSongplays
    \/ EngineFailure
    \/ Rerun

\* the job run, and then possibly run again
Spec == Init /\ [][Next]_vars

\* one run of the job
NextOnce ==
    \/ create_spark_session
    \/ ReadSongData
    \/ WriteSongs
    \/ WriteArtists
    \/ ReadLogData
    \/ WriteUsers
    \/ WriteTime
    \/ ReadSongDf
    \/ WriteSongplays
    \/ EngineFailure

SpecOnce == Init /\ [][NextOnce]_vars

\* the same job on one song and at most one log record read at KnownTs, on
\* each clock of TZSweep
InitTZ ==
    /\ pc = "create_spark_session"
    /\ spark = FALSE
    /\ songIn = SetToBag({Song("S1", "T1", "A1", "N1")})
    /\ logIn \in BagsUpTo({l \in LogCatalog : l.ts = KnownTs}, 1)
    /\ tz \in TZSweep
    /\ df = EmptyBag
    /\ song_df = EmptyBag
    /\ out = EmptyStore
    /\ prev = EmptyStore
    /\ written = <<>>
    /\ failedAt = "none"
    /\ runs = 1
    /\ repeat = FALSE

SpecTZ == InitTZ /\ [][Next]_vars

(***************************************************************************)
(* What the tables must be, stated on the input datasets alone.            *)
(***************************************************************************)
Rows(t) == BagToSet(t)
Written == {written[i] : i \in 1..Len(written)}
Restrict(r, cols) == [c \in cols |-> r[c]]
\* number of records of bag B that lie in S
Total(B, S) == BagCardinality([x \in S |-> B[x]])
SongRecords == BagToSet(songIn)
LogRecords == BagToSet(logIn)
NextSongRecords == {l \in LogRecords : l.page = "NextSong"}
InstantOf(ts) == [sec |-> ts.hi * 1000 + ts.lo \div 1000,
                  micros |-> (ts.lo % 1000) * 1000]
LogCols == {"ts", "userId", "level", "sessionId", "location", "userAgent"}
PlayCols == LogCols \cup {"song_id", "artist_id"}
\* the matched pairs of a filtered log record and a song record
Matches == {p \in [log : NextSongRecords, song : SongRecords] :
              p.log.song = p.song.title}
PlayOf(p) == Restrict(p.log, LogCols) @@ Restrict(p.song, {"song_id", "artist_id"})

\* one row per song record, with its five fields
SongsExact(t) ==
    \A row \in Rows(t) \cup {Restrict(x, SongCols) : x \in SongRecords} :
        CopiesIn(row, t) =
            Total(songIn, {x \in SongRecords : Restrict(x, SongCols) = row})

\* one row per artist_id of the input, taken from a record with that id
ArtistsExact(t) ==
    /\ \A r \in Rows(t) : CopiesIn(r, t) = 1
    /\ \A r1, r2 \in Rows(t) : r1.artist_id = r2.artist_id => r1 = r2
    /\ {r.artist_id : r \in Rows(t)} = {x.artist_id : x \in SongRecords}
    /\ \A r \in Rows(t) : \E x \in SongRecords : r = Restrict(x, ArtistCols)

\* one row per userId of the filtered records, ascending
UsersKeyed(t) ==
    /\ \A i, j \in 1..Len(t) : i < j => t[i].userId < t[j].userId
    /\ {t[i].userId : i \in 1..Len(t)} = {l.userId : l \in NextSongRecords}

UsersExact(t) ==
    /\ UsersKeyed(t)
    /\ \A i \in 1..Len(t) :
          \E l \in NextSongRecords : t[i] = Restrict(l, UserCols)

\* a time row agrees with its instant read on the local clock
TimeRowOk(r) ==
    LET local == r.datetime.sec + tz * 60
        start == DaysFromCivil(r.year, r.month, r.day) * 86400 + r.hour * 3600
    IN  /\ DOMAIN r = TimeCols
        /\ r.month \in 1..12 /\ r.day \in 1..31 /\ r.hour \in 0..23
        /\ local - start \in 0..3599

\* one row per instant of the filtered records
TimeExact(t) ==
    /\ \A r \in Rows(t) : CopiesIn(r, t) = 1 /\ TimeRowOk(r)
    /\ \A r1, r2 \in Rows(t) : r1.datetime = r2.datetime => r1 = r2
    /\ {r.datetime : r \in Rows(t)} = {InstantOf(l.ts) : l \in NextSongRecords}

\* year and month of a songplays row are those of its ts on the local clock
PlayMonthOk(r) ==
    LET local == InstantOf(r.ts).sec + tz * 60
        first == DaysFromCivil(r.year, r.month, 1)
        next == IF r.month = 12 THEN DaysFromCivil(r.year + 1, 1, 1)
                ELSE DaysFromCivil(r.year, r.month + 1, 1)
    IN  /\ r.month \in 1..12
        /\ first * 86400 <= local
        /\ local < next * 86400

\* one row per matched pair, with the pair's fields and an id of its own
SongplaysExact(t) ==
    /\ \A r \in Rows(t) : CopiesIn(r, t) = 1 /\ PlayMonthOk(r)
    /\ \A r1, r2 \in Rows(t) : r1.songplay_id = r2.songplay_id => r1 = r2
    /\ \A row \in {Restrict(r, PlayCols) : r \in Rows(t)}
                    \cup {PlayOf(p) : p \in Matches} :
          Cardinality({r \in Rows(t) : Restrict(r, PlayCols) = row}) =
            BagCardinality([p \in {q \in Matches : PlayOf(q) = row} |->
                               logIn[p.log] * songIn[p.song]])

ExactFor(d) ==
    CASE d = "songs" -> SongsExact(out.songs)
      [] d = "artists" -> ArtistsExact(out.artists)
      [] d = "users" -> UsersExact(out.users)
      [] d = "time" -> TimeExact(out.time)
      [] d = "songplays" -> SongplaysExact(out.songplays)

(***************************************************************************)
(* Claims.                                                                 *)
(***************************************************************************)

\* C4: the artists table written by process_song_data has exactly one row
\* per distinct artist_id of the song input: every artist_id appears, none
\* in two rows, and each row's five fields are those of an input record
\* carrying that artist_id.
C4_ArtistsOnePerArtistId ==
    "artists" \in Written => ArtistsExact(out.artists)

\* C4 witness: artists was written from an input in which two records share
\* an artist_id and differ in artist_name.
C4_Witness ==
    /\ "artists" \in Written
    /\ \E x, y \in SongRecords :
          x.artist_id = y.artist_id /\ x.artist_name # y.artist_name
    /\ Cardinality({x.artist_id : x \in SongRecords}) = 1

\* C3: the users table written by process_log_data has exactly one row for
\* every distinct userId among the log records with page = "NextSong", no
\* other userId, and its rows are in ascending userId order.
C3_UsersOnePerUserIdAscending ==
    "users" \in Written => UsersKeyed(out.users)

\* C3 witness: users was written with a row for userId 1 and then one for
\* userId 2, from two filtered records.
C3_Witness ==
    /\ "users" \in Written
    /\ Cardinality(NextSongRecords) = 2
    /\ Len(out.users) = 2
    /\ out.users[1].userId = 1
    /\ out.users[2].userId = 2

\* C5: no song_id appears in more than one row of the songs table, also
\* when the input holds the same song_id in more than one record, and every
\* row's five fields match a source record.
C5_SongsOnePerSongId ==
    "songs" \in Written =>
        /\ \A r \in Rows(out.songs) : CopiesIn(r, out.songs) = 1
        /\ \A r1, r2 \in Rows(out.songs) : r1.song_id = r2.song_id => r1 = r2
        /\ \A r \in Rows(out.songs) :
              \E x \in SongRecords : r = Restrict(x, SongCols)

\* C2: the songplays table has exactly one row for each pair of a log
\* record with page = "NextSong" and a song record with log.song =
\* song.title, and no other row; song_id and artist_id of a row are those of
\* the pair's song record.
C2_SongplaysOnePerMatch ==
    "songplays" \in Written => SongplaysExact(out.songplays)

\* C2 witness: songplays was written from an input with a filtered log
\* record matching two songs by title and another matching none.
C2_Witness ==
    /\ "songplays" \in Written
    /\ \E l \in NextSongRecords :
          Cardinality({p \in Matches : p.log = l}) = 2
    /\ \E l \in NextSongRecords : \A p \in Matches : p.log # l
    /\ BagCardinality(out.songplays) = 2

\* C6: no row of users, time or songplays derives from a log record whose
\* page is not "NextSong": the three tables are those of the input without
\* these records.
C6_OnlyNextSongRows ==
    /\ "users" \in Written =>
          /\ UsersExact(out.users)
          /\ \A i \in 1..Len(out.users) :
                \E l \in NextSongRecords : out.users[i] = Restrict(l, UserCols)
    /\ "time" \in Written =>
          /\ TimeExact(out.time)
          /\ \A r \in Rows(out.time) :
                \E l \in NextSongRecords : r.datetime = InstantOf(l.ts)
    /\ "songplays" \in Written =>
          /\ SongplaysExact(out.songplays)
          /\ \A r \in Rows(out.songplays) :
                \E l \in NextSongRecords :
                   Restrict(r, LogCols) = Restrict(l, LogCols)

\* C6 witness: the three tables were written from a log holding a record of
\* another page whose song matches a song title and whose userId and ts are
\* in no filtered record, next to a filtered record that matches too.
C6_Witness ==
    /\ "songplays" \in Written
    /\ out.songplays # <<>>
    /\ \E l \in LogRecords \ NextSongRecords :
          /\ \E x \in SongRecords : x.title = l.song
          /\ \A n \in NextSongRecords : n.userId # l.userId /\ n.ts # l.ts

\* C7: after a successful run each of the five destinations holds exactly
\* the table of that run's input, whatever it held before; no row of an
\* earlier run survives.
C7_FullOverwrite ==
    pc = "done" =>
        \A d \in {"songs", "artists", "users", "time", "songplays"} :
            ExactFor(d)

\* C7 witness: a second run on a changed input has succeeded, and songs,
\* users and songplays rows of the first run are gone.
C7_Witness ==
    /\ pc = "done"
    /\ runs = 2
    /\ \E r \in Rows(prev.songs) : ~BagIn(r, out.songs)
    /\ prev.songplays # <<>>
    /\ out.songplays = <<>>

StripId(t) ==
    BagOfAll(LAMBDA r : Restrict(r, DOMAIN r \ {"songplay_id"}), t)
Range(s) == {s[i] : i \in 1..Len(s)}

\* C1 as stated: a second run on the unchanged input leaves all five tables
\* with the content the first run left, as sets of rows, songplay_id
\* ignored, for every input.
C1_RerunSameContent ==
    (pc = "done" /\ repeat) =>
        /\ Rows(out.songs) = Rows(prev.songs)
        /\ Rows(out.artists) = Rows(prev.artists)
        /\ Range(out.users) = Range(prev.users)
        /\ Rows(out.time) = Rows(prev.time)
        /\ Rows(StripId(out.songplays)) = Rows(StripId(prev.songplays))

NoArtistConflict ==
    \A x, y \in SongRecords :
        x.artist_id = y.artist_id => Restrict(x, ArtistCols) = Restrict(y, ArtistCols)
NoUserConflict ==
    \A x, y \in NextSongRecords :
        x.userId = y.userId => Restrict(x, UserCols) = Restrict(y, UserCols)

\* C1 amended: a second run on the unchanged input leaves songs, time and
\* songplays (songplay_id ignored) with the rows the first run left, each as
\* often; artists and users keep their keys, and keep their rows when the
\* records that share an artist_id or a userId agree on the table's fields.
C1_RerunSameUpToDuplicateChoice ==
    (pc = "done" /\ repeat) =>
        /\ out.songs = prev.songs
        /\ out.time = prev.time
        /\ StripId(out.songplays) = StripId(prev.songplays)
        /\ {r.artist_id : r \in Rows(out.artists)}
              = {r.artist_id : r \in Rows(prev.artists)}
        /\ [i \in 1..Len(out.users) |-> out.users[i].userId]
              = [i \in 1..Len(prev.users) |-> prev.users[i].userId]
        /\ NoArtistConflict => out.artists = prev.artists
        /\ NoUserConflict => out.users = prev.users

\* C1 witness: the second run on the unchanged input has succeeded with
\* another artists row and another users row than the first, and songplays
\* is not empty.
C1_Witness ==
    /\ pc = "done"
    /\ repeat
    /\ out.artists # prev.artists
    /\ out.users # prev.users
    /\ out.songplays # <<>>

\* C8 as stated: the time row of ts = 1541121934796 has year = 2018,
\* month = 11 and day = 1.
C8_KnownTsIsNov1 ==
    "time" \in Written =>
        \A r \in Rows(out.time) :
            r.datetime = InstantOf(KnownTs) =>
                r.year = 2018 /\ r.month = 11 /\ r.day = 1

\* C8 amended: the time row of ts = 1541121934796 has year = 2018 and
\* month = 11; its day is 1 on a local clock 90 minutes or more behind UTC
\* and 2 on a clock 75 minutes behind UTC or later: the fields are the
\* calendar decomposition of the instant on the local clock.
C8_KnownTsOnLocalClock ==
    "time" \in Written =>
        \A r \in Rows(out.time) :
            r.datetime = InstantOf(KnownTs) =>
                /\ r.year = 2018
                /\ r.month = 11
                /\ tz <= -90 => r.day = 1
                /\ tz >= -75 => r.day = 2

\* C8 witness: the time row of KnownTs was written on a clock 90 minutes
\* behind UTC.
C8_Witness ==
    /\ "time" \in Written
    /\ tz = -90
    /\ \E r \in Rows(out.time) : r.datetime = InstantOf(KnownTs) /\ r.day = 1

StepIndex(step) == CHOOSE i \in 1..Len(Steps) : Steps[i] = step
IsWrite(step) == step \in {"write_" \o Dests[i] : i \in 1..Len(Dests)}
WritesBefore(idx) == Cardinality({i \in 1..(idx - 1) : IsWrite(Steps[i])})

\* C9: the steps of a run happen in one order: the session first, then the
\* songs and the artists write, then the users, time and songplays writes;
\* no write of the log builder starts before the artists write, and no
\* destination is written twice in a run.
C9_FixedOrder ==
    /\ written = SubSeq(Dests, 1, Len(written))
    /\ written # <<>> => spark
    /\ pc # "failed" =>
          Len(written) = WritesBefore(IF pc = "done" THEN Len(Steps) + 1
                                      ELSE StepIndex(pc))
    /\ pc \in {"write_users", "write_time", "read_song_df", "write_songplays"}
          => /\ spark
             /\ SubSeq(written, 1, 2) = <<"songs", "artists">>

\* C9 witness: a run has finished with its five writes.
C9_Witness ==
    /\ pc = "done"
    /\ spark
    /\ written = Dests
    /\ out.songplays # <<>>

\* C10: when a step raises the run ends there: no later step has run, the
\* destinations written before hold this run's tables, and those whose
\* write had not started hold what they held before the run.
C10_FailureKeepsPartialOutput ==
    pc = "failed" =>
        LET k == WritesBefore(StepIndex(failedAt))
        IN  /\ written = SubSeq(Dests, 1, k)
            /\ \A d \in Written : ExactFor(d)
            /\ \A i \in (k + 1)..Len(Dests) :
                  failedAt # "write_" \o Dests[i] => out[Dests[i]] = prev[Dests[i]]

\* C10 witness: the time write of a second run raised after songs was
\* rewritten with other rows, and songplays still holds the first run's.
C10_Witness ==
    /\ pc = "failed"
    /\ failedAt = "write_time"
    /\ runs = 2
    /\ out.songs # prev.songs
    /\ prev.songplays # <<>>
    /\ out.songplays = prev.songplays

=============================================================================
